---- MODULE Spec2Model ----
(***************************************************************************)
(* Model of mamyzabawki_api.py: the OpenAI completion client with retry    *)
(* (_call_openai), the Shoper catalog client (_fetch_shoper_products), the *)
(* background batch run (process_task), and the /run_async and /status     *)
(* routes that share the in-memory tasks dictionary with it.               *)
(*                                                                         *)
(* Text is modelled as a sequence of one-character strings.  Polish        *)
(* diacritics of the source's messages are written in ASCII.               *)
(***************************************************************************)
EXTENDS Integers, Sequences, FiniteSets, TLC

(***************************************************************************)
(* Bounds of the model (not program constants).                            *)
(***************************************************************************)
\* number of chunks a modelled completion response is assembled from
MaxChunks == 4
\* number of lines of an uploaded identifier file
MaxLines == 3
\* number of lines of the files uploaded in the runs checked for termination
MaxLiveLines == 2

(***************************************************************************)
(* Program constants.                                                      *)
(***************************************************************************)
MAX_RETRIES == 3
RETRY_DELAY == 2

VARIABLES
    \* ---- _call_openai (one call) ----
    apiKey,      \* OPENAI_API_KEY is non-empty
    oaPc,        \* position in _call_openai
    attempt,     \* loop variable of: for attempt in range(MAX_RETRIES)
    oaLog,       \* the outbound calls and sleeps made so far, in order
    oaRaw,       \* message content of the 200 response, as received
    oaResult,    \* the returned text, or the text of the raised RuntimeError
    \* ---- batch runs ----
    tasks,       \* the global dict tasks: task_id -> snapshot dict
    disk,        \* files saved under static/: path -> data rows
    req,         \* per /run_async request: "none", "spawned", "returned", "rejected"
    upload,      \* per request: content of the saved ids.txt (sequence of lines)
    task_id,     \* per request: the uuid4 generated for it
    pc,          \* per background thread: position in process_task
    answers,     \* per thread: the statuses the catalog answered with, in request order
    products,    \* per thread: list returned by _fetch_shoper_products
    ws,          \* per thread: data rows appended to the sheet, in order
    idx,         \* per thread: loop variable i of the record loop
    name,        \* per thread: local variable name (Unbound until assigned)
    exc,         \* per thread: text of the exception the outer handler caught
    pollResp,    \* per task id: the last response of GET /status/<task_id>
    regWriters,  \* per registry key: the threads that have written it
    fileWriters  \* per output path: the threads that have saved it

oaVars == <<apiKey, oaPc, attempt, oaLog, oaRaw, oaResult>>
batchVars == <<tasks, disk, req, upload, task_id, pc, answers, products, ws,
               idx, name, exc, pollResp, regWriters, fileWriters>>
vars == <<apiKey, oaPc, attempt, oaLog, oaRaw, oaResult,
          tasks, disk, req, upload, task_id, pc, answers, products, ws, idx,
          name, exc, pollResp, regWriters, fileWriters>>

(***************************************************************************)
(* Text helpers: Python's str.strip, str.strip(chars), str.startswith and  *)
(* str.replace on sequences of characters.                                 *)
(***************************************************************************)
Whitespace == {" ", "\n"}

\* the backtick character (written as a token: the character itself cannot
\* appear in a string of this notation)
BT == "BACKTICK"

RECURSIVE LStripSet(_, _)
LStripSet(s, cs) ==
    IF s # <<>> /\ Head(s) \in cs THEN LStripSet(Tail(s), cs) ELSE s

RECURSIVE RStripSet(_, _)
RStripSet(s, cs) ==
    IF s # <<>> /\ s[Len(s)] \in cs
    THEN RStripSet(SubSeq(s, 1, Len(s) - 1), cs)
    ELSE s

\* s.strip()
Strip(s) == RStripSet(LStripSet(s, Whitespace), Whitespace)

\* s.strip(BT)
StripBackticks(s) == RStripSet(LStripSet(s, {BT}), {BT})

\* s.startswith(p)
StartsWith(s, p) == Len(s) >= Len(p) /\ SubSeq(s, 1, Len(p)) = p

\* s.replace(old, ""): leftmost non-overlapping occurrences, one pass
RECURSIVE RemoveAll(_, _)
RemoveAll(s, old) ==
    IF s = <<>> THEN <<>>
    ELSE IF StartsWith(s, old)
         THEN RemoveAll(SubSeq(s, Len(old) + 1, Len(s)), old)
         ELSE <<Head(s)>> \o RemoveAll(Tail(s), old)

Fence == <<BT, BT, BT>>
HtmlTag == <<"h", "t", "m", "l">>

\* lines 73-74: the code-fence clean-up applied to the stripped content
PostProcess(content) ==
    IF StartsWith(content, Fence)
    THEN Strip(RemoveAll(StripBackticks(content), HtmlTag))
    ELSE content

(***************************************************************************)
(* _call_openai: one call of the completion client.                        *)
(***************************************************************************)
\* pieces the modelled response texts are assembled from
Chunks == {Fence, HtmlTag, <<" ">>, <<"x">>, <<BT>>, <<"h", "t">>, <<"m", "l">>}

RECURSIVE Texts(_)
Texts(n) ==
    IF n = 0 THEN {<<>>}
    ELSE Texts(n - 1) \cup {t \o c : t \in Texts(n - 1), c \in Chunks}

\* the message contents a 200 response may carry
Contents == Texts(MaxChunks)

\* texts of the RuntimeErrors _call_openai raises
NoKeyError == "Brak OPENAI_API_KEY w srodowisku"
NoResponseError == "Nie udalo sie uzyskac odpowiedzi z OpenAI po 3 probach"

\* the loop bound taken one too far
MoreAttemptsOffByOne(n) == n <= MAX_RETRIES

\* the loop condition of: for attempt in range(MAX_RETRIES)
MoreAttempts(n) == n < MAX_RETRIES

\* lines 37-46: the credential check, then the loop is entered
OaCall ==
    /\ oaPc = "idle"
    /\ IF apiKey
       THEN /\ oaPc' = "loop"
            /\ attempt' = 0
            /\ oaResult' = oaResult
       ELSE /\ oaPc' = "raised"
            /\ oaResult' = NoKeyError
            /\ attempt' = attempt
    /\ UNCHANGED <<apiKey, oaLog, oaRaw>>
    /\ UNCHANGED batchVars

\* lines 64-75: the request gets status 200; the content is stripped,
\* cleaned of code fences and returned
OaPostOk ==
    /\ oaPc = "loop"
    /\ MoreAttempts(attempt)
    /\ \E c \in Contents :
         /\ oaRaw' = c
         /\ oaResult' = PostProcess(Strip(c))
    /\ oaLog' = Append(oaLog, <<"post", "200">>)
    /\ oaPc' = "returned"
    /\ UNCHANGED <<apiKey, attempt>>
    /\ UNCHANGED batchVars

\* lines 64-65, 77 and 79-80: the request gets another status, or the
\* request or the decoding of its answer raises
OaPostFail ==
    /\ oaPc = "loop"
    /\ MoreAttempts(attempt)
    /\ \E how \in {"status", "exception"} :
         oaLog' = Append(oaLog, <<"post", how>>)
    /\ oaPc' = "sleep"
    /\ UNCHANGED <<apiKey, attempt, oaRaw, oaResult>>
    /\ UNCHANGED batchVars

\* lines 78 and 81: time.sleep(RETRY_DELAY), then the next iteration
OaSleep ==
    /\ oaPc = "sleep"
    /\ oaLog' = Append(oaLog, <<"sleep", RETRY_DELAY>>)
    /\ attempt' = attempt + 1
    /\ oaPc' = "loop"
    /\ UNCHANGED <<apiKey, oaRaw, oaResult>>
    /\ UNCHANGED batchVars

\* line 83: the loop is exhausted
OaExhausted ==
    /\ oaPc = "loop"
    /\ ~MoreAttempts(attempt)
    /\ oaPc' = "raised"
    /\ oaResult' = NoResponseError
    /\ UNCHANGED <<apiKey, attempt, oaLog, oaRaw>>
    /\ UNCHANGED batchVars

(***************************************************************************)
(* The batch run.  Dictionaries are functions whose domain is the set of   *)
(* keys present.                                                           *)
(***************************************************************************)
\* the /run_async requests of the detailed runs, and of the concurrent runs
Runs == {1}
ConcRuns == {1, 2}

\* d[k] = v of a dict
SetKey(d, k, v) == (k :> v) @@ d

\* the value of a local variable that has not been assigned
Unbound == <<"<unbound>">>
NoId == 0

\* lines of an uploaded file: a blank line, and two identifiers
LineSet == {<<" ", "\n">>, <<"7", "\n">>, <<" ", "8", " ", "\n">>}

RECURSIVE FilesOf(_)
FilesOf(n) ==
    IF n = 0 THEN {<<>>}
    ELSE FilesOf(n - 1) \cup {Append(f, l) : f \in FilesOf(n - 1), l \in LineSet}

\* the identifier files a client may upload
Files == FilesOf(MaxLines)
\* the files uploaded in the runs that execute concurrently
ConcFiles == FilesOf(1)
\* the files uploaded in the runs checked for termination
LiveFiles == FilesOf(MaxLiveLines)

\* line 197: [line.strip() for line in f if line.strip()]
RECURSIVE ProductIds(_)
ProductIds(f) ==
    IF f = <<>> THEN <<>>
    ELSE LET id == Strip(Head(f)) IN
         IF id # <<>>
         THEN <<id>> \o ProductIds(Tail(f))
         ELSE ProductIds(Tail(f))

\* the status GET /products/<pid> answers with
FetchAnswers == {"200", "404"}

RECURSIVE AnswerLists(_)
AnswerLists(n) ==
    IF n = 0 THEN {<<>>}
    ELSE {Append(a, x) : a \in AnswerLists(n - 1), x \in FetchAnswers}

\* the fetch loop putting each record in front of the list
RECURSIVE FetchLoopPrepending(_, _)
FetchLoopPrepending(ids, statuses) ==
    IF ids = <<>> THEN <<>>
    ELSE IF Head(statuses) = "200"
         THEN FetchLoopPrepending(Tail(ids), Tail(statuses))
                  \o <<[product_id |-> Head(ids)]>>
         ELSE FetchLoopPrepending(Tail(ids), Tail(statuses))

\* lines 98-105: the fetch loop; statuses[k] is the status for ids[k]
RECURSIVE FetchLoop(_, _)
FetchLoop(ids, statuses) ==
    IF ids = <<>> THEN <<>>
    ELSE IF Head(statuses) = "200"
         THEN <<[product_id |-> Head(ids)]>>
                  \o FetchLoop(Tail(ids), Tail(statuses))
         ELSE FetchLoop(Tail(ids), Tail(statuses))

LoginError == "Blad logowania do Shopera"
NoProductsError == "Nie udalo sie pobrac danych produktow z Shopera"

\* line 212: the record's localized name
NameOf(p) == <<"name">> \o p.product_id

\* the text _call_openai returns for the record's prompt
HtmlFor(p) == <<"html">> \o p.product_id

\* lines 35-83 as seen by the caller: the returned text, or a RuntimeError
CallOutcomes(key) ==
    IF key THEN {"ok", NoResponseError} ELSE {NoKeyError}

\* line 224: f"Blad: {e}"
ErrorMarker(e) == <<"Blad: ", e>>

\* line 224: name or "Brak nazwy"
NameOr(n) == IF n = <<>> THEN <<"Brak nazwy">> ELSE n

\* the percentage counted from 0, as enumerate(products) would give
ProgressFromZero(i, total) == ((i - 1) * 100) \div total

\* line 227: int(i / total * 100)
Progress(i, total) == (i * 100) \div total

\* one fixed file name for every run
OutputPathShared(id) == <<"static", "generated.xlsx">>

\* line 232: os.path.join("static", f"generated_{task_id}.xlsx")
OutputPath(id) == <<"static", "generated_", id, ".xlsx">>

\* line 269: uuid.uuid4() yields an identifier no earlier call has yielded
Uuid4(ids, used) == ids \ used

\* the identifiers /run_async has generated so far
UsedIds == {task_id[r] : r \in {q \in DOMAIN req : req[q] \in {"spawned", "returned"}}}

\* the identifiers /run_async has handed to a client
ReturnedIds == {task_id[r] : r \in {q \in DOMAIN req : req[q] = "returned"}}

UUIDs == DOMAIN pollResp

\* a write of tasks[task_id] by thread r
RegWrite(r, snapshot) ==
    /\ tasks' = SetKey(tasks, task_id[r], snapshot)
    /\ regWriters' = SetKey(regWriters, task_id[r],
                            (IF task_id[r] \in DOMAIN regWriters
                             THEN regWriters[task_id[r]] ELSE {}) \cup {r})

InitBatch(R) ==
    /\ tasks = <<>>
    /\ disk = <<>>
    /\ req = [r \in R |-> "none"]
    /\ upload = [r \in R |-> <<>>]
    /\ task_id = [r \in R |-> NoId]
    /\ pc = [r \in R |-> "idle"]
    /\ answers = [r \in R |-> <<>>]
    /\ products = [r \in R |-> <<>>]
    /\ ws = [r \in R |-> <<>>]
    /\ idx = [r \in R |-> 0]
    /\ name = [r \in R |-> Unbound]
    /\ exc = [r \in R |-> ""]
    /\ pollResp = [k \in R |-> [code |-> 0]]
    /\ regWriters = <<>>
    /\ fileWriters = <<>>

InitClient ==
    /\ apiKey \in BOOLEAN
    /\ oaPc = "idle"
    /\ attempt = 0
    /\ oaLog = <<>>
    /\ oaRaw = <<>>
    /\ oaResult = <<>>

Init == InitClient /\ InitBatch(Runs)
InitConc == InitClient /\ InitBatch(ConcRuns)

(***************************************************************************)
(* /run_async                                                              *)
(***************************************************************************)
\* lines 260-263: no file in the request
RunAsyncNoFile(r) ==
    /\ req[r] = "none"
    /\ \A q \in DOMAIN req : q < r => req[q] # "none"
    /\ req' = [req EXCEPT ![r] = "rejected"]
    /\ UNCHANGED <<tasks, disk, upload, task_id, pc, answers, products, ws, idx, name,
                   exc, pollResp, regWriters, fileWriters>>
    /\ UNCHANGED oaVars

\* lines 256-271: the file is saved, the identifier generated and the
\* thread started
RunAsyncSpawn(r, F) ==
    /\ req[r] = "none"
    /\ \A q \in DOMAIN req : q < r => req[q] # "none"
    /\ \E f \in F, u \in Uuid4(UUIDs, UsedIds) :
         /\ upload' = [upload EXCEPT ![r] = f]
         /\ task_id' = [task_id EXCEPT ![r] = u]
    /\ req' = [req EXCEPT ![r] = "spawned"]
    /\ pc' = [pc EXCEPT ![r] = "l193"]
    /\ UNCHANGED <<answers, tasks, disk, products, ws, idx, name, exc, pollResp,
                   regWriters, fileWriters>>
    /\ UNCHANGED oaVars

\* line 273: the identifier is returned to the client
RunAsyncReturn(r) ==
    /\ req[r] = "spawned"
    /\ req' = [req EXCEPT ![r] = "returned"]
    /\ UNCHANGED <<tasks, disk, upload, task_id, pc, answers, products, ws, idx, name,
                   exc, pollResp, regWriters, fileWriters>>
    /\ UNCHANGED oaVars

(***************************************************************************)
(* /status/<task_id>                                                       *)
(***************************************************************************)
\* lines 282-285: the answer of the route; known records whether the
\* identifier had been handed to a client before the request
StatusOf(k) ==
    IF k \in DOMAIN tasks
    THEN [code |-> 200, body |-> tasks[k], known |-> k \in ReturnedIds]
    ELSE [code |-> 404, known |-> k \in ReturnedIds]

Poll(k) ==
    /\ pollResp' = [pollResp EXCEPT ![k] = StatusOf(k)]
    /\ UNCHANGED <<tasks, disk, req, upload, task_id, pc, answers, products, ws, idx,
                   name, exc, regWriters, fileWriters>>
    /\ UNCHANGED oaVars

(***************************************************************************)
(* process_task, run by the background thread of request r                 *)
(***************************************************************************)
\* the entry created without its status
InitialSnapshotNoStatus == [progress |-> 0, status |-> "", elapsed |-> 0]

\* line 193: the dict the entry is created with
InitialSnapshot == [progress |-> 0, status |-> "started", elapsed |-> 0]

\* line 193: the registry entry is created
Create(r) ==
    /\ pc[r] = "l193"
    /\ RegWrite(r, InitialSnapshot)
    /\ pc' = [pc EXCEPT ![r] = "l196"]
    /\ UNCHANGED <<disk, req, upload, task_id, answers, products, ws, idx, name, exc,
                   pollResp, fileWriters>>
    /\ UNCHANGED oaVars

\* the check for an empty result left out
NoProductsUnchecked(fetched) == FALSE

\* line 200: if not products
NoProducts(fetched) == fetched = <<>>

\* lines 196-208 and 86-105: the identifiers are read, the catalog queried
\* and the workbook created; a failed login or an empty result raises
ReadAndFetch(r) ==
    /\ pc[r] = "l196"
    /\ LET ids == ProductIds(upload[r]) IN
       \E login \in {"200", "401"}, a \in AnswerLists(Len(ids)) :
         LET fetched == FetchLoop(ids, a) IN
         IF login # "200"
         THEN /\ exc' = [exc EXCEPT ![r] = LoginError]
              /\ pc' = [pc EXCEPT ![r] = "l240"]
              /\ UNCHANGED <<answers, products, idx>>
         ELSE IF NoProducts(fetched)
         THEN /\ exc' = [exc EXCEPT ![r] = NoProductsError]
              /\ pc' = [pc EXCEPT ![r] = "l240"]
              /\ answers' = [answers EXCEPT ![r] = a]
              /\ products' = [products EXCEPT ![r] = fetched]
              /\ UNCHANGED idx
         ELSE /\ answers' = [answers EXCEPT ![r] = a]
              /\ products' = [products EXCEPT ![r] = fetched]
              /\ IF Len(fetched) >= 1
                 THEN /\ idx' = [idx EXCEPT ![r] = 1]
                      /\ pc' = [pc EXCEPT ![r] = "l210"]
                 ELSE /\ pc' = [pc EXCEPT ![r] = "l231"]
                      /\ UNCHANGED idx
              /\ UNCHANGED exc
    /\ UNCHANGED <<tasks, disk, req, upload, task_id, ws, name, pollResp,
                   regWriters, fileWriters>>
    /\ UNCHANGED oaVars

\* line 224: the handler's row; it reads the local variable name
HandlerRow(p, n, e) ==
    [id |-> p.product_id, name |-> NameOr(n), desc |-> ErrorMarker(e)]

\* The fields of a fetched record are seen when it is processed: they are
\* well-formed, or its translations are no mapping.

\* lines 210-225, record with translations that are no mapping: line 211
\* raises before name is assigned, and the handler at line 224 reads name
RecordBadTranslations(r) ==
    /\ pc[r] = "l210"
    /\ LET p == products[r][idx[r]] IN
       /\ IF name[r] = Unbound
          THEN /\ exc' = [exc EXCEPT ![r] = "UnboundLocalError: name"]
               /\ pc' = [pc EXCEPT ![r] = "l240"]
               /\ UNCHANGED ws
          ELSE /\ ws' = [ws EXCEPT ![r] =
                           Append(@, HandlerRow(p, name[r], "AttributeError"))]
               /\ pc' = [pc EXCEPT ![r] = "l227"]
               /\ UNCHANGED exc
    /\ UNCHANGED <<tasks, disk, req, upload, task_id, answers, products, idx, name,
                   pollResp, regWriters, fileWriters>>
    /\ UNCHANGED oaVars

\* lines 210-225, well-formed record: name is assigned, the completion call
\* returns and the row is appended (line 220), or it raises and the handler
\* appends the row.  (An exception of _build_prompt at line 217 takes the
\* same path as one of _call_openai, with another text.)
RecordGood(r) ==
    /\ pc[r] = "l210"
    /\ LET p == products[r][idx[r]] IN
       /\ name' = [name EXCEPT ![r] = NameOf(p)]
       /\ \E out \in CallOutcomes(apiKey) :
            ws' = [ws EXCEPT ![r] =
                     Append(@, IF out = "ok"
                               THEN [id |-> p.product_id, name |-> NameOf(p),
                                     desc |-> HtmlFor(p)]
                               ELSE HandlerRow(p, NameOf(p), out))]
    /\ pc' = [pc EXCEPT ![r] = "l227"]
    /\ UNCHANGED <<tasks, disk, req, upload, task_id, answers, products, idx, exc,
                   pollResp, regWriters, fileWriters>>
    /\ UNCHANGED oaVars

\* line 227
SetProgress(r) ==
    /\ pc[r] = "l227"
    /\ RegWrite(r, SetKey(tasks[task_id[r]], "progress",
                          Progress(idx[r], Len(products[r]))))
    /\ pc' = [pc EXCEPT ![r] = "l228"]
    /\ UNCHANGED <<disk, req, upload, task_id, answers, products, ws, idx, name, exc,
                   pollResp, fileWriters>>
    /\ UNCHANGED oaVars

\* (datetime.now() - start_time).seconds, with the clock advancing only in
\* time.sleep(1.0) of line 229: the number of sleeps completed
Elapsed(sleeps) == sleeps

\* lines 228-229 and the loop's next step: elapsed is written, the thread
\* sleeps and goes on to the next record or leaves the loop
SetElapsed(r) ==
    /\ pc[r] = "l228"
    /\ RegWrite(r, SetKey(tasks[task_id[r]], "elapsed", Elapsed(idx[r] - 1)))
    /\ IF idx[r] < Len(products[r])
       THEN /\ idx' = [idx EXCEPT ![r] = @ + 1]
            /\ pc' = [pc EXCEPT ![r] = "l210"]
       ELSE /\ pc' = [pc EXCEPT ![r] = "l231"]
            /\ UNCHANGED idx
    /\ UNCHANGED <<disk, req, upload, task_id, answers, products, ws, name, exc,
                   pollResp, fileWriters>>
    /\ UNCHANGED oaVars

\* lines 231-233: the workbook is saved under the task's own file name
Save(r) ==
    /\ pc[r] = "l231"
    /\ LET path == OutputPath(task_id[r]) IN
       /\ disk' = SetKey(disk, path, ws[r])
       /\ fileWriters' = SetKey(fileWriters, path,
                                (IF path \in DOMAIN fileWriters
                                 THEN fileWriters[path] ELSE {}) \cup {r})
    /\ pc' = [pc EXCEPT ![r] = "l235"]
    /\ UNCHANGED <<tasks, req, upload, task_id, answers, products, ws, idx, name, exc,
                   pollResp, regWriters>>
    /\ UNCHANGED oaVars

\* lines 231-233: makedirs or save raises
SaveFails(r) ==
    /\ pc[r] = "l231"
    /\ exc' = [exc EXCEPT ![r] = "OSError"]
    /\ pc' = [pc EXCEPT ![r] = "l240"]
    /\ UNCHANGED <<tasks, disk, req, upload, task_id, answers, products, ws, idx, name,
                   pollResp, regWriters, fileWriters>>
    /\ UNCHANGED oaVars

\* line 235
SetDone(r) ==
    /\ pc[r] = "l235"
    /\ RegWrite(r, SetKey(tasks[task_id[r]], "status", "done"))
    /\ pc' = [pc EXCEPT ![r] = "l236"]
    /\ UNCHANGED <<disk, req, upload, task_id, answers, products, ws, idx, name, exc,
                   pollResp, fileWriters>>
    /\ UNCHANGED oaVars

\* line 236
SetFile(r) ==
    /\ pc[r] = "l236"
    /\ RegWrite(r, SetKey(tasks[task_id[r]], "file",
                          <<"/">> \o OutputPath(task_id[r])))
    /\ pc' = [pc EXCEPT ![r] = "l237"]
    /\ UNCHANGED <<disk, req, upload, task_id, answers, products, ws, idx, name, exc,
                   pollResp, fileWriters>>
    /\ UNCHANGED oaVars

\* line 237
SetFinalElapsed(r) ==
    /\ pc[r] = "l237"
    /\ RegWrite(r, SetKey(tasks[task_id[r]], "elapsed",
                          Elapsed(Len(products[r]))))
    /\ pc' = [pc EXCEPT ![r] = "finished"]
    /\ UNCHANGED <<disk, req, upload, task_id, answers, products, ws, idx, name, exc,
                   pollResp, fileWriters>>
    /\ UNCHANGED oaVars

\* lines 239-240
SetError(r) ==
    /\ pc[r] = "l240"
    /\ RegWrite(r, SetKey(tasks[task_id[r]], "status", "error"))
    /\ pc' = [pc EXCEPT ![r] = "l241"]
    /\ UNCHANGED <<disk, req, upload, task_id, answers, products, ws, idx, name, exc,
                   pollResp, fileWriters>>
    /\ UNCHANGED oaVars

\* line 241
SetErrorText(r) ==
    /\ pc[r] = "l241"
    /\ RegWrite(r, SetKey(tasks[task_id[r]], "error", exc[r]))
    /\ pc' = [pc EXCEPT ![r] = "finished"]
    /\ UNCHANGED <<disk, req, upload, task_id, answers, products, ws, idx, name, exc,
                   pollResp, fileWriters>>
    /\ UNCHANGED oaVars

\* one step of the background thread of request r
Thread(r) ==
    \/ Create(r)
    \/ ReadAndFetch(r)
    \/ RecordBadTranslations(r)
    \/ RecordGood(r)
    \/ SetProgress(r)
    \/ SetElapsed(r)
    \/ Save(r)
    \/ SaveFails(r)
    \/ SetDone(r)
    \/ SetFile(r)
    \/ SetFinalElapsed(r)
    \/ SetError(r)
    \/ SetErrorText(r)

(***************************************************************************)
(* Specifications                                                          *)
(***************************************************************************)
\* one batch run in full, with the client polling it
Next ==
    \/ \E r \in DOMAIN req : RunAsyncNoFile(r)
    \/ \E r \in DOMAIN req : RunAsyncSpawn(r, Files)
    \/ \E r \in DOMAIN req : RunAsyncReturn(r)
    \/ \E r \in DOMAIN req : Create(r)
    \/ \E r \in DOMAIN req : ReadAndFetch(r)
    \/ \E r \in DOMAIN req : RecordBadTranslations(r)
    \/ \E r \in DOMAIN req : RecordGood(r)
    \/ \E r \in DOMAIN req : SetProgress(r)
    \/ \E r \in DOMAIN req : SetElapsed(r)
    \/ \E r \in DOMAIN req : Save(r)
    \/ \E r \in DOMAIN req : SaveFails(r)
    \/ \E r \in DOMAIN req : SetDone(r)
    \/ \E r \in DOMAIN req : SetFile(r)
    \/ \E r \in DOMAIN req : SetFinalElapsed(r)
    \/ \E r \in DOMAIN req : SetError(r)
    \/ \E r \in DOMAIN req : SetErrorText(r)
    \/ \E k \in UUIDs : Poll(k)

Spec == Init /\ [][Next]_vars

\* one batch run under the scheduling of its thread: a started thread whose
\* external calls return keeps taking steps
NextLive ==
    \/ \E r \in DOMAIN req : RunAsyncNoFile(r)
    \/ \E r \in DOMAIN req : RunAsyncSpawn(r, LiveFiles)
    \/ \E r \in DOMAIN req : RunAsyncReturn(r)
    \/ \E r \in DOMAIN req : Create(r)
    \/ \E r \in DOMAIN req : ReadAndFetch(r)
    \/ \E r \in DOMAIN req : RecordBadTranslations(r)
    \/ \E r \in DOMAIN req : RecordGood(r)
    \/ \E r \in DOMAIN req : SetProgress(r)
    \/ \E r \in DOMAIN req : SetElapsed(r)
    \/ \E r \in DOMAIN req : Save(r)
    \/ \E r \in DOMAIN req : SaveFails(r)
    \/ \E r \in DOMAIN req : SetDone(r)
    \/ \E r \in DOMAIN req : SetFile(r)
    \/ \E r \in DOMAIN req : SetFinalElapsed(r)
    \/ \E r \in DOMAIN req : SetError(r)
    \/ \E r \in DOMAIN req : SetErrorText(r)
    \/ \E k \in UUIDs : Poll(k)

SpecLive == Init /\ [][NextLive]_vars /\ \A r \in Runs : WF_vars(Thread(r))

\* two batch runs executing concurrently (their writes; no client polls)
NextConc ==
    \/ \E r \in DOMAIN req : RunAsyncNoFile(r)
    \/ \E r \in DOMAIN req : RunAsyncSpawn(r, ConcFiles)
    \/ \E r \in DOMAIN req : RunAsyncReturn(r)
    \/ \E r \in DOMAIN req : Create(r)
    \/ \E r \in DOMAIN req : ReadAndFetch(r)
    \/ \E r \in DOMAIN req : RecordBadTranslations(r)
    \/ \E r \in DOMAIN req : RecordGood(r)
    \/ \E r \in DOMAIN req : SetProgress(r)
    \/ \E r \in DOMAIN req : SetElapsed(r)
    \/ \E r \in DOMAIN req : Save(r)
    \/ \E r \in DOMAIN req : SaveFails(r)
    \/ \E r \in DOMAIN req : SetDone(r)
    \/ \E r \in DOMAIN req : SetFile(r)
    \/ \E r \in DOMAIN req : SetFinalElapsed(r)
    \/ \E r \in DOMAIN req : SetError(r)
    \/ \E r \in DOMAIN req : SetErrorText(r)

SpecConc == InitConc /\ [][NextConc]_vars

\* one call of the completion client
NextClient ==
    \/ OaCall
    \/ OaPostOk
    \/ OaPostFail
    \/ OaSleep
    \/ OaExhausted

SpecClient == Init /\ [][NextClient]_vars

(***************************************************************************)
(* Properties of the completion client (checked under SpecClient)          *)
(***************************************************************************)
\* the requests made so far
Posts == SelectSeq(oaLog, LAMBDA e : e[1] = "post")

\* every request so far got a non-success status
OnlyBadStatuses == \A k \in 1..Len(Posts) : Posts[k][2] = "status"

\* C1: with a credential present and a non-success status on every attempt,
\* the client makes exactly 3 requests and never a 4th, sleeps RETRY_DELAY
\* (2 s) after each of them, so between any two attempts, and then raises
\* the "no response after 3 attempts" error.
C1_ExactlyThreeAttempts ==
    /\ Len(Posts) <= 3
    /\ (apiKey /\ oaPc = "raised" /\ OnlyBadStatuses) =>
         /\ Len(Posts) = 3
         /\ oaLog = <<
              <<"post", "status">>, <<"sleep", 2>>,
              <<"post", "status">>, <<"sleep", 2>>,
              <<"post", "status">>, <<"sleep", 2>> >>
         /\ oaResult = NoResponseError

\* C1 witness: the call has failed after three non-success answers
C1_Witness ==
    /\ apiKey
    /\ oaPc = "raised"
    /\ OnlyBadStatuses
    /\ Len(Posts) = 3

\* s contains t as a contiguous part
Contains(s, t) ==
    \E k \in 1..(Len(s) - Len(t) + 1) : SubSeq(s, k, k + Len(t) - 1) = t

\* the characters of s that are neither backticks nor whitespace
Body(s) == SelectSeq(s, LAMBDA c : c # BT /\ c \notin Whitespace)

\* C8: a response that begins with a code fence is returned with all fence
\* markers and the language tag removed and whitespace trimmed, the rest of
\* the text unchanged: the result holds no fence marker, and its text is
\* that of the response, less the language tag that follows the opening
\* fence; a response that does not begin with a fence is returned trimmed.
C8_FenceCleanup ==
    oaPc = "returned" =>
      IF StartsWith(Strip(oaRaw), Fence)
      THEN /\ ~Contains(oaResult, Fence)
           /\ oaResult = Strip(oaResult)
           /\ \/ Body(oaResult) = Body(oaRaw)
              \/ /\ StartsWith(Body(oaRaw), HtmlTag)
                 /\ Body(oaResult) = SubSeq(Body(oaRaw), 5, Len(Body(oaRaw)))
      ELSE oaResult = Strip(oaRaw)

(***************************************************************************)
(* Properties of the batch run                                             *)
(***************************************************************************)
\* the threads /run_async has started
Started == {r \in DOMAIN req : req[r] \in {"spawned", "returned"}}

\* the identifiers of the rows of a sheet, in order
RowIds(rows) == [k \in 1..Len(rows) |-> rows[k].id]

\* the identifiers among ids that the catalog answered with status 200
RECURSIVE Resolved(_, _)
Resolved(ids, statuses) ==
    IF ids = <<>> THEN <<>>
    ELSE (IF Head(statuses) = "200" THEN <<Head(ids)>> ELSE <<>>)
             \o Resolved(Tail(ids), Tail(statuses))

\* the row of a record is an error row
IsErrorRow(row) == row.desc[1] = "Blad: "

\* thread r is in the outer handler or past it
InOuterHandler(r) == pc[r] \in {"l240", "l241"}

\* thread r has left the record loop normally
PastLoop(r) == pc[r] \in {"l231", "l235", "l236", "l237"}

\* C2: an exception raised while processing one record is caught for that
\* record only and never escapes the record loop: the outer handler is
\* entered only before the loop or after it, never with records left, and
\* past the loop the sheet holds one row per fetched record, each with the
\* generated text or with the error marker.
C2_RecordErrorsContained ==
    \A r \in Started :
      /\ InOuterHandler(r) =>
           \/ idx[r] = 0
           \/ Len(ws[r]) = Len(products[r])
      /\ PastLoop(r) =>
           /\ Len(ws[r]) = Len(products[r])
           /\ \A k \in 1..Len(ws[r]) :
                \/ IsErrorRow(ws[r][k])
                \/ ws[r][k].desc = HtmlFor(products[r][k])

\* a snapshot a poll returned
Polled(k) == pollResp[k].code = 200

\* C3: the progress values successive polls of a task see never decrease,
\* lie in 0..100, and a snapshot with status done has progress 100.
C3_ProgressMonotone ==
    /\ [](\A k \in UUIDs : Polled(k) =>
            /\ pollResp[k].body.progress \in 0..100
            /\ pollResp[k].body.status = "done" =>
                 pollResp[k].body.progress = 100)
    /\ [][\A k \in UUIDs : (Polled(k) /\ pollResp'[k].code = 200) =>
            pollResp'[k].body.progress >= pollResp[k].body.progress]_vars

\* C3 witness: a poll has seen the task done, at 100, after three records
C3_Witness ==
    \E k \in UUIDs :
      /\ Polled(k)
      /\ pollResp[k].body.status = "done"
      /\ pollResp[k].body.progress = 100
      /\ \E r \in Started : task_id[r] = k /\ Len(products[r]) = 3

\* C4: the sheet holds one row per record the catalog resolved, in the
\* order of the identifiers' lines in the input file, and none for an
\* identifier whose fetch failed; the saved file holds exactly these rows.
C4_RowsAreResolvedInOrder ==
    \A r \in Started :
      LET ids == ProductIds(upload[r])
          res == Resolved(ids, answers[r])
      IN  /\ Len(answers[r]) = Len(ids) =>
                /\ Len(ws[r]) <= Len(res)
                /\ RowIds(ws[r]) = SubSeq(res, 1, Len(ws[r]))
          /\ OutputPath(task_id[r]) \in DOMAIN disk =>
                /\ Len(answers[r]) = Len(ids)
                /\ RowIds(disk[OutputPath(task_id[r])]) = res

\* C4 witness: a file saved with two rows for three identifiers, the two
\* resolved ones being different identifiers
C4_Witness ==
    \E r \in Started :
      /\ Len(ProductIds(upload[r])) = 3
      /\ OutputPath(task_id[r]) \in DOMAIN disk
      /\ Len(disk[OutputPath(task_id[r])]) = 2
      /\ disk[OutputPath(task_id[r])][1].id # disk[OutputPath(task_id[r])][2].id

\* C5: a run over an empty or whitespace-only file never saves a file and
\* never becomes done; it ends with status error and an error text.
C5_EmptyInputFails ==
    \A r \in Started :
      ProductIds(upload[r]) = <<>> =>
        /\ OutputPath(task_id[r]) \notin DOMAIN disk
        /\ \A path \in DOMAIN fileWriters : r \notin fileWriters[path]
        /\ ~PastLoop(r)
        /\ task_id[r] \in DOMAIN tasks => tasks[task_id[r]].status # "done"
        /\ pc[r] = "finished" =>
             /\ tasks[task_id[r]].status = "error"
             /\ "error" \in DOMAIN tasks[task_id[r]]
             /\ tasks[task_id[r]].error \in {LoginError, NoProductsError}

\* C5 witness: the run over a whitespace-only file has ended, the login
\* having succeeded
C5_Witness ==
    \E r \in Started :
      /\ upload[r] # <<>>
      /\ ProductIds(upload[r]) = <<>>
      /\ pc[r] = "finished"
      /\ tasks[task_id[r]].error = NoProductsError

\* C6: a snapshot a poll returns with status done carries the file path.
C6_DoneCarriesFile ==
    \A k \in UUIDs :
      (Polled(k) /\ pollResp[k].body.status = "done") =>
        "file" \in DOMAIN pollResp[k].body

\* C7: concurrent runs have distinct task identifiers, and each registry
\* key and each output file is written by one thread only, the one whose
\* task identifier it carries.
C7_RunsWriteOnlyTheirOwn ==
    /\ \A r, q \in Started : r # q => task_id[r] # task_id[q]
    /\ \A key \in DOMAIN regWriters :
         /\ Cardinality(regWriters[key]) <= 1
         /\ \A r \in regWriters[key] : task_id[r] = key
    /\ \A path \in DOMAIN fileWriters :
         /\ Cardinality(fileWriters[path]) <= 1
         /\ \A r \in fileWriters[path] : path = OutputPath(task_id[r])

\* C7 witness: two threads, both still running, have each saved a file
C7_Witness ==
    /\ Cardinality(Started) = 2
    /\ \A r \in Started : pc[r] = "l235"
    /\ Cardinality(DOMAIN disk) = 2

\* C9: a poll made after /run_async has returned the identifier never gets
\* the 404 answer.
C9_ReturnedIdIsFound ==
    \A k \in UUIDs :
      (pollResp[k].code # 0 /\ pollResp[k].known) => pollResp[k].code # 404

\* the status of the entry of thread r
StatusOfRun(r) == tasks[task_id[r]].status

====
